---------------------------- MODULE Spec2Model ----------------------------
(***************************************************************************)
(* A model of the COFFEE equilibrium solver: the trust-region Newton loop  *)
(* of Optimizer (crates/coffee/src/optimize.rs) and the truncated-CG       *)
(* subproblem solver Steihaug (crates/coffee/src/steihaug.rs).             *)
(*                                                                         *)
(* Every quantity of the program is an f64.  The model keeps what makes    *)
(* f64 arithmetic differ from real arithmetic (rounding to a fixed number  *)
(* of significant bits, overflow to infinity, NaN and its comparisons) in  *)
(* a binary floating-point format of the same construction as IEEE-754     *)
(* binary64 with a narrower significand and exponent range: a finite value *)
(* is an integer multiple k of 1/Unit with at most Precision significant   *)
(* bits, every operation returns the correctly rounded exact result (ties  *)
(* to even), a result above MaxFinite is an infinity.  Signed zeros are    *)
(* not distinguished.                                                      *)
(***************************************************************************)
EXTENDS Integers, Sequences, FiniteSets, TLC

(***************************************************************************)
(* The floating-point format.                                              *)
(***************************************************************************)
Precision == 4
Unit == 16
MaxExp == 8
MaxFinite == (2^Precision - 1) * 2^MaxExp
INF == MaxFinite + 1
NINF == -INF
NAN == MaxFinite + 2

is_nan(x) == x = NAN
is_finite(x) == x >= -MaxFinite /\ x <= MaxFinite
Sign(x) == IF x < 0 THEN -1 ELSE 1
Mag(x) == IF x < 0 THEN -x ELSE x

RECURSIVE QuantumFrom(_, _, _)
QuantumFrom(a, den, q) ==
    IF a < 2^Precision * den * q THEN q ELSE QuantumFrom(a, den, 2 * q)

\* The exact rational num/den (den > 0), rounded to the format: a is its
\* magnitude's numerator, q the spacing of the format at the magnitude, n and
\* r the quotient and the remainder of a by d = den * q, v the rounded
\* magnitude.
RoundRat(num, den) ==
    LET signed(v) == IF v > MaxFinite THEN Sign(num) * INF ELSE Sign(num) * v
        nearest(n, r, d, q) ==
            signed((IF 2 * r > d \/ (2 * r = d /\ n % 2 = 1) THEN n + 1 ELSE n) * q)
        spaced(a, q) == nearest(a \div (den * q), a % (den * q), den * q, q)
        magnitude(a) == spaced(a, QuantumFrom(a, den, 1))
    IN  magnitude(Mag(num))

\* A decimal literal of the source, num/den, as the nearest value of the format.
Lit(num, den) == RoundRat(num * Unit, den)

FNeg(a) == IF is_nan(a) THEN NAN ELSE -a
FAbs(a) == IF is_nan(a) THEN NAN ELSE Mag(a)

FAdd(a, b) ==
    IF is_nan(a) \/ is_nan(b) THEN NAN
    ELSE IF ~is_finite(a) THEN (IF ~is_finite(b) /\ a # b THEN NAN ELSE a)
    ELSE IF ~is_finite(b) THEN b
    ELSE RoundRat(a + b, 1)

FSub(a, b) == FAdd(a, FNeg(b))

FMul(a, b) ==
    IF is_nan(a) \/ is_nan(b) THEN NAN
    ELSE IF ~is_finite(a) \/ ~is_finite(b)
         THEN (IF a = 0 \/ b = 0 THEN NAN ELSE Sign(a) * Sign(b) * INF)
    ELSE RoundRat(a * b, Unit)

FDiv(a, b) ==
    IF is_nan(a) \/ is_nan(b) THEN NAN
    ELSE IF ~is_finite(a)
         THEN (IF ~is_finite(b) THEN NAN ELSE Sign(a) * Sign(b) * INF)
    ELSE IF ~is_finite(b) THEN 0
    ELSE IF b = 0 THEN (IF a = 0 THEN NAN ELSE Sign(a) * INF)
    ELSE RoundRat(a * Unit * Sign(b), Mag(b))

\* The integer square root of t, bit by bit from the bit b down: the largest
\* f + j, 0 <= j < 2 * b, whose square is at most t.
RECURSIVE ISqrtFrom(_, _, _)
ISqrtFrom(t, f, b) ==
    IF b = 0 THEN f
    ELSE ISqrtFrom(t, IF (f + b) * (f + b) <= t THEN f + b ELSE f, b \div 2)

\* f64::sqrt: the correctly rounded square root.
FSqrt(a) ==
    IF is_nan(a) \/ a < 0 THEN NAN
    ELSE IF a = INF THEN INF
    ELSE LET nearest(t, v0, v1, q) ==
                 IF v0 * v0 = t THEN v0
                 ELSE IF 4 * t < (v0 + v1) * (v0 + v1) THEN v0
                 ELSE IF 4 * t > (v0 + v1) * (v0 + v1) THEN v1
                 ELSE IF (v0 \div q) % 2 = 0 THEN v0 ELSE v1
             spaced(t, f, q) == nearest(t, (f \div q) * q, (f \div q) * q + q, q)
             floored(t, f) == spaced(t, f, QuantumFrom(f, 1, 1))
         IN  floored(a * Unit, ISqrtFrom(a * Unit, 0, 2^MaxExp))

\* Comparisons: every comparison with a NaN is false, except !=.
FLt(a, b) == ~is_nan(a) /\ ~is_nan(b) /\ a < b
FLe(a, b) == ~is_nan(a) /\ ~is_nan(b) /\ a <= b
FGt(a, b) == FLt(b, a)
FGe(a, b) == FLe(b, a)
FEq(a, b) == ~is_nan(a) /\ ~is_nan(b) /\ a = b
FNe(a, b) == ~FEq(a, b)

\* f64::min and f64::max return the other operand when one is a NaN.
FMin(a, b) == IF is_nan(a) THEN b ELSE IF is_nan(b) THEN a ELSE IF a < b THEN a ELSE b
FMax(a, b) == IF is_nan(a) THEN b ELSE IF is_nan(b) THEN a ELSE IF a > b THEN a ELSE b

\* exp and ln, correctly rounded, tabulated over the format: ExpTable[k - ExpLo + 1]
\* is exp(k/Unit) for ExpLo <= k <= ExpHi; below ExpLo the result rounds to 0
\* and above ExpHi it overflows.
ExpLo == -52
ExpHi == 88
ExpTable ==
  <<
     1, 1, 1, 1, 1, 1, 1, 1, 1, 1, 1, 1, 1, 1, 1, 2,
     2, 2, 2, 2, 2, 2, 2, 3, 3, 3, 3, 3, 4, 4, 4, 4,
     5, 5, 5, 6, 6, 6, 7, 7, 8, 8, 9, 9, 10, 10, 11, 12,
     12, 13, 14, 15, 16, 18, 18, 20, 20, 22, 24, 24, 26, 28, 30, 32,
     32, 36, 40, 40, 44, 48, 48, 52, 56, 60, 64, 64, 72, 80, 80, 88,
     96, 96, 104, 112, 120, 128, 128, 144, 144, 160, 176, 176, 192, 208, 224, 240,
     256, 256, 288, 288, 320, 352, 352, 384, 416, 448, 480, 512, 512, 576, 576, 640,
     704, 704, 768, 832, 896, 960, 960, 1024, 1152, 1152, 1280, 1408, 1408, 1536, 1664, 1792,
     1792, 1920, 2048, 2304, 2304, 2560, 2816, 2816, 3072, 3328, 3328, 3584, 3840
  >>

FExp(a) ==
    IF is_nan(a) THEN NAN
    ELSE IF a > ExpHi THEN INF
    ELSE IF a < ExpLo THEN 0
    ELSE ExpTable[a - ExpLo + 1]

\* LnTable[FIndex(k)] is ln(k/Unit) for the positive finite k of the format.
LnTable ==
  <<
     -44, -32, -26, -22, -18, -16, -13, -11, -9, -8, -6, -5, -3, -2, -1, 0,
     2, 4, 5, 6, 8, 9, 10, 11, 13, 15, 16, 18, 18, 20, 22, 22,
     24, 26, 28, 28, 30, 32, 32, 32, 36, 36, 40, 40, 40, 44, 44, 44,
     48, 48, 48, 52, 52, 52, 56, 56, 56, 60, 60, 60, 64, 64, 64, 64,
     72, 72, 72, 72, 72, 72, 80, 80, 80, 80, 80, 88, 88, 88, 88
  >>

FIndex(k) ==
    LET spaced(q) ==
            2^(Precision - 1) * (CHOOSE i \in 0..MaxExp : 2^i = q) + k \div q
    IN  spaced(QuantumFrom(k, 1, 1))

FLn(a) ==
    IF is_nan(a) \/ a < 0 THEN NAN
    ELSE IF a = 0 THEN NINF
    ELSE IF a = INF THEN INF
    ELSE LnTable[FIndex(a)]


(***************************************************************************)
(* Vectors (Array1<f64>) are sequences; a matrix (Array2<f64>) is a record *)
(* of its shape and its rows, so that a matrix without rows still has a    *)
(* column count.  A dot product of fewer than eight elements is summed     *)
(* left to right from 0.0.                                                 *)
(***************************************************************************)
Zeros(n) == [i \in 1..n |-> 0]
VAdd(a, b) == [i \in 1..Len(a) |-> FAdd(a[i], b[i])]
VSub(a, b) == [i \in 1..Len(a) |-> FSub(a[i], b[i])]
VMul(a, b) == [i \in 1..Len(a) |-> FMul(a[i], b[i])]
VScale(c, v) == [i \in 1..Len(v) |-> FMul(c, v[i])]
VNeg(v) == [i \in 1..Len(v) |-> FNeg(v[i])]
VExp(v) == [i \in 1..Len(v) |-> FExp(v[i])]
VDiv(v, c) == [i \in 1..Len(v) |-> FDiv(v[i], c)]

RECURSIVE DotFrom(_, _, _, _)
DotFrom(a, b, i, acc) ==
    IF i > Len(a) THEN acc
    ELSE DotFrom(a, b, i + 1, FAdd(acc, FMul(a[i], b[i])))

dot(a, b) == DotFrom(a, b, 1, 0)

Matrix(rows, cols, a) == [nrows |-> rows, ncols |-> cols, a |-> a]
Column(m, j) == [k \in 1..m.nrows |-> m.a[k][j]]
MatVec(m, v) == [i \in 1..m.nrows |-> dot(m.a[i], v)]
TMatVec(m, v) == [j \in 1..m.ncols |-> dot(Column(m, j), v)]

\* Optimizer::norm and Steihaug::norm (the same body).
norm(v) == FSqrt(dot(v, v))

(***************************************************************************)
(* Steihaug (steihaug.rs).  An operation of the solver is an operator      *)
(* from the struct to the struct after it, with the returned value.        *)
(***************************************************************************)
\* A solver whose counter starts at one.
Steihaug_new_started(max_iterations, vector_size) ==
    [curr_iterations |-> 1,
     max_iterations |-> max_iterations,
     vector_size |-> vector_size,
     curr_zstep |-> Zeros(vector_size),
     curr_rstep |-> Zeros(vector_size),
     curr_dstep |-> Zeros(vector_size)]

Steihaug_new(max_iterations, vector_size) ==
    [curr_iterations |-> 0,
     max_iterations |-> max_iterations,
     vector_size |-> vector_size,
     curr_zstep |-> Zeros(vector_size),
     curr_rstep |-> Zeros(vector_size),
     curr_dstep |-> Zeros(vector_size)]

\* Some(t) is [some |-> TRUE, t |-> t]; None is [some |-> FALSE, t |-> 0].
solve_curvature_quadratic(s, delta) ==
    LET filtered(t) == IF is_finite(t) THEN [some |-> TRUE, t |-> t]
                       ELSE [some |-> FALSE, t |-> 0]
        root(a, b, disc) ==
            filtered(FDiv(FAdd(FNeg(b), FSqrt(disc)), FMul(Lit(2, 1), a)))
        quadratic(a, b, c) ==
            root(a, b, FSub(FMul(b, b), FMul(FMul(Lit(4, 1), a), c)))
    IN  quadratic(dot(s.curr_dstep, s.curr_dstep),
                  FMul(Lit(2, 1), dot(s.curr_zstep, s.curr_dstep)),
                  FSub(dot(s.curr_zstep, s.curr_zstep), FMul(delta, delta)))

early_update_zstep(s, delta) ==
    LET updated(tau) ==
            IF ~tau.some THEN [success |-> FALSE, st |-> s]
            ELSE [success |-> TRUE,
                  st |-> [s EXCEPT !.curr_zstep =
                                       VAdd(@, VScale(tau.t, s.curr_dstep))]]
    IN  updated(solve_curvature_quadratic(s, delta))

\* A guard that lets one more call through than the guard of iterate does.
CapReached_late(s) == s.curr_iterations > s.max_iterations

\* The guard at the top of iterate.
CapReached(s) == s.curr_iterations >= s.max_iterations

\* The inner loop of iterate from its i-th pass on.
RECURSIVE cg_loop(_, _, _, _, _)
cg_loop(s, hessian, eps, delta, i) ==
    IF i >= s.vector_size
    THEN [success |-> TRUE, st |-> [s EXCEPT !.curr_iterations = @ + 1]]
    ELSE
    LET continued(new_zstep, new_rstep, beta) ==
            cg_loop([s EXCEPT !.curr_dstep =
                                  VSub(VScale(beta, s.curr_dstep), new_rstep),
                              !.curr_zstep = new_zstep,
                              !.curr_rstep = new_rstep],
                    hessian, eps, delta, i + 1)
        stepped(new_zstep, new_rstep, rr) ==
            IF FGe(norm(new_zstep), delta) THEN early_update_zstep(s, delta)
            ELSE IF FLt(norm(new_rstep), eps)
            THEN [success |-> TRUE, st |-> [s EXCEPT !.curr_zstep = new_zstep]]
            ELSE continued(new_zstep, new_rstep,
                           FDiv(dot(new_rstep, new_rstep), rr))
        scaled(Hd, rr, alpha) ==
            stepped(VAdd(s.curr_zstep, VScale(alpha, s.curr_dstep)),
                    VAdd(s.curr_rstep, VScale(alpha, Hd)), rr)
        curved(Hd, rr) == scaled(Hd, rr, FDiv(rr, dot(s.curr_dstep, Hd)))
    IN  curved(MatVec(hessian, s.curr_dstep), dot(s.curr_rstep, s.curr_rstep))

iterate(s, gradient, hessian, eps, delta) ==
    IF CapReached(s) THEN [success |-> FALSE, st |-> s]
    ELSE
    LET started(s0) ==
            IF FLt(norm(s0.curr_rstep), eps) THEN [success |-> TRUE, st |-> s0]
            ELSE cg_loop(s0, hessian, eps, delta, 0)
    IN  started([s EXCEPT !.curr_zstep = Zeros(s.vector_size),
                          !.curr_rstep = gradient,
                          !.curr_dstep = VNeg(gradient)])

get_result(s) == s.curr_zstep

(***************************************************************************)
(* Optimizer (optimize.rs): the pure parts.  o is the Optimizer struct.    *)
(***************************************************************************)
SMALLEST_EXP_VALUE == Lit(-230, 1)

density_water(t) ==
    LET a1 == Lit(-3983035, 1000000)
        a2 == Lit(301797, 1000)
        a3 == Lit(5225289, 10)
        a4 == Lit(6934881, 100000)
        a5 == Lit(99997495, 100000)
        t1 == FAdd(t, a1)
        frac == FDiv(FDiv(FMul(FMul(t1, t1), FAdd(t, a2)), a3), FAdd(t, a4))
    IN  FDiv(FMul(a5, FSub(Lit(1, 1), frac)), Lit(180152, 10000))

polymer_lambdas(o) == VExp(MatVec(o.polymers, o.optimal_lambda))

lagrangian(o, pl) ==
    LET after_energies == dot(o.polymers_q, pl)
        after_initial == dot(o.optimal_lambda, o.monomers)
    IN  FLn(FSub(after_energies, after_initial))

jacobian(o, pl, lag) ==
    LET after_energies == VMul(o.polymers_q, pl)
        jac == VSub(TMatVec(o.polymers, after_energies), o.monomers)
    IN  VDiv(jac, FExp(lag))

hessian(o, pl, lag, jac) ==
    LET M == o.polymers.ncols
        N == o.polymers.nrows
        first_part == FDiv(Lit(1, 1), FExp(lag))
        after_energies == VMul(o.polymers_q, pl)
        polymerization ==
            Matrix(N, M, [k \in 1..N |->
                             [j \in 1..M |-> FMul(o.polymers.a[k][j],
                                                  after_energies[k])]])
        second_part(i, j) == dot(Column(o.polymers, i), Column(polymerization, j))
    IN  Matrix(M, M, [i \in 1..M |->
                         [j \in 1..M |-> FSub(FMul(first_part, second_part(i, j)),
                                              FMul(jac[i], jac[j]))]])

update_optimal_x(o) ==
    IF o.scalarity
    THEN [o EXCEPT !.optimal_x =
                       VScale(density_water(o.temp_celsius),
                              VMul(o.polymers_q, polymer_lambdas(o)))]
    ELSE [o EXCEPT !.optimal_x = VMul(o.polymers_q, polymer_lambdas(o))]

RECURSIVE MaxAbsFrom(_, _, _)
MaxAbsFrom(v, i, acc) ==
    IF i > Len(v) THEN acc ELSE MaxAbsFrom(v, i + 1, FMax(acc, FAbs(v[i])))

error(o) ==
    LET concs == TMatVec(o.polymers, o.optimal_x)
        scaling == IF o.scalarity THEN density_water(o.temp_celsius) ELSE Lit(1, 1)
        backtrack == VSub(VScale(scaling, o.monomers), concs)
    IN  MaxAbsFrom(backtrack, 1, NINF)

reset(o) ==
    [o EXCEPT !.curr_iteration = 0,
              !.time_us = 0,
              !.optimal_lambda = Zeros(Len(o.optimal_lambda)),
              !.optimal_x = Zeros(Len(o.optimal_x)),
              !.optimal_lagrangian = 0,
              !.log_msgs = <<>>]

get_results(o) ==
    [optimal_x |-> o.optimal_x,
     optimal_lagrangian |-> o.optimal_lagrangian,
     optimal_lambda |-> o.optimal_lambda,
     concentration_error |-> error(o),
     log_messages |-> o.log_msgs,
     elapsed_time |-> o.time_us]

(***************************************************************************)
(* The messages of format.rs.  A message is the record of what its text    *)
(* states: every number the format strings print has few enough digits in  *)
(* the model's format to be printed in full.                               *)
(***************************************************************************)
Message(kind, it, success, full, lag, err, lam, time) ==
    [kind |-> kind, it |-> it, success |-> success, full |-> full,
     lag |-> lag, err |-> err, lam |-> lam, time |-> time]

start_message == Message("start", 0, TRUE, FALSE, 0, 0, <<>>, -1)

process_message(it, lag, err) ==
    Message("process", it, TRUE, FALSE, lag, err, <<>>, -1)

\* results is [some |-> BOOLEAN, r |-> an OptimizerResults].
conclude_message(it, success, time_us, display_time, results) ==
    Message("conclude", it, success, results.some,
            IF results.some THEN results.r.optimal_lagrangian ELSE 0,
            IF results.some THEN results.r.concentration_error ELSE 0,
            IF results.some THEN results.r.optimal_lambda ELSE <<>>,
            IF display_time THEN time_us ELSE -1)

(***************************************************************************)
(* The constants of new and of density_water (0.00198717, 522528.9, the    *)
(* clamp at -230 against an exp that overflows near 709) need more range   *)
(* than the binary format above has.  For them an f64 is modelled with the *)
(* exponent range of binary64 and a significand of four decimal digits: a  *)
(* finite value is m * 10^e with DTop / 10 <= |m| < DTop (or m = 0), every *)
(* operation returns the exact result rounded to nearest, ties to even, a  *)
(* result above f64::MAX is an infinity and one below half the smallest    *)
(* subnormal is zero.                                                      *)
(***************************************************************************)
DTop == 10000

DFin(m, e) == [k |-> "fin", m |-> m, e |-> e]
DZero == DFin(0, 0)
DNaN == [k |-> "nan", m |-> 0, e |-> 0]
DInf(sgn) == [k |-> IF sgn < 0 THEN "ninf" ELSE "inf", m |-> 0, e |-> 0]

\* sgn * a * 10^e for a normalised a, within the range of f64
\* (f64::MAX = 1.797e308, the smallest subnormal = 4.941e-324).
DRanged(sgn, a, e) ==
    IF e > 305 \/ (e = 305 /\ a > 1797) THEN DInf(sgn)
    ELSE IF e < -327 \/ (e = -327 /\ a < 2470) THEN DZero
    ELSE DFin(sgn * a, e)

\* The number of low digits of a that do not fit the significand.
RECURSIVE DDrop(_, _)
DDrop(a, k) == IF a \div 10^k < DTop THEN k ELSE DDrop(a, k + 1)

\* sgn * a * 10^e rounded to the format; sticky: the exact value lies
\* strictly above a * 10^e in magnitude, by less than one unit of a.
RECURSIVE DRound(_, _, _, _)
DRound(sgn, a, e, sticky) ==
    IF a = 0 THEN DZero
    ELSE IF a < DTop \div 10 THEN DRound(sgn, a * 10, e - 1, sticky)
    ELSE LET carried(q, k) ==
                 IF q = DTop THEN DRanged(sgn, DTop \div 10, e + k + 1)
                 ELSE DRanged(sgn, q, e + k)
             nearest(q, r, p, k) ==
                 carried(IF 2 * r > p \/ (2 * r = p /\ (sticky \/ q % 2 = 1))
                         THEN q + 1 ELSE q, k)
             cut(k) == nearest(a \div 10^k, a % 10^k, 10^k, k)
         IN  cut(DDrop(a, 0))

\* A decimal literal of the source with at most four significant digits
\* kept: m * 10^e.
DLit(m, e) == DRound(Sign(m), Mag(m), e, FALSE)

DNeg(x) ==
    IF x.k = "nan" THEN DNaN
    ELSE IF x.k = "inf" THEN DInf(-1)
    ELSE IF x.k = "ninf" THEN DInf(1)
    ELSE DFin(-x.m, x.e)

DSign(x) ==
    IF x.k = "inf" THEN 1
    ELSE IF x.k = "ninf" THEN -1
    ELSE IF x.m > 0 THEN 1 ELSE IF x.m < 0 THEN -1 ELSE 0

DAdd(x, y) ==
    IF x.k = "nan" \/ y.k = "nan" THEN DNaN
    ELSE IF x.k # "fin" THEN (IF y.k # "fin" /\ y.k # x.k THEN DNaN ELSE x)
    ELSE IF y.k # "fin" THEN y
    ELSE IF x.m = 0 THEN y
    ELSE IF y.m = 0 THEN x
    ELSE LET summed(n, e) == DRound(Sign(n), Mag(n), e, FALSE)
             aligned(hi, lo) ==
                 IF hi.e - lo.e > 5 THEN hi
                 ELSE summed(hi.m * 10^(hi.e - lo.e) + lo.m, lo.e)
         IN  IF x.e >= y.e THEN aligned(x, y) ELSE aligned(y, x)

DSub(x, y) == DAdd(x, DNeg(y))

DMul(x, y) ==
    IF x.k = "nan" \/ y.k = "nan" THEN DNaN
    ELSE IF x.k # "fin" \/ y.k # "fin"
         THEN (IF DSign(x) = 0 \/ DSign(y) = 0 THEN DNaN
               ELSE DInf(DSign(x) * DSign(y)))
    ELSE DRound(Sign(x.m) * Sign(y.m), Mag(x.m) * Mag(y.m), x.e + y.e, FALSE)

DDiv(x, y) ==
    IF x.k = "nan" \/ y.k = "nan" THEN DNaN
    ELSE IF x.k # "fin"
         THEN (IF y.k # "fin" THEN DNaN ELSE DInf(DSign(x) * Sign(y.m)))
    ELSE IF y.k # "fin" THEN DZero
    ELSE IF y.m = 0 THEN (IF x.m = 0 THEN DNaN ELSE DInf(DSign(x)))
    ELSE LET quotient(n, d) ==
                 DRound(Sign(x.m) * Sign(y.m), n \div d, x.e - y.e - 5, n % d # 0)
         IN  quotient(Mag(x.m) * 10^5, Mag(y.m))

\* Comparisons: every comparison with a NaN is false.
DLt(x, y) == x.k # "nan" /\ y.k # "nan" /\ DSign(DSub(x, y)) < 0
DLe(x, y) == x.k # "nan" /\ y.k # "nan" /\ (x = y \/ DSign(DSub(x, y)) < 0)

\* f64::max returns the other operand when one is a NaN.
DMax(x, y) ==
    IF x.k = "nan" THEN y ELSE IF y.k = "nan" THEN x
    ELSE IF DLt(x, y) THEN y ELSE x

\* The integer nearest to a finite x of magnitude at most 10^4.
DNearest(x) ==
    IF x.e >= 0 THEN x.m * 10^x.e
    ELSE IF x.e < -5 THEN 0
    ELSE Sign(x.m) * ((2 * Mag(x.m) + 10^(-x.e)) \div (2 * 10^(-x.e)))

\* 1 + r/k * (1 + r/(k+1) * ( ... )): the series of exp(r) from its k-th
\* term to its last-th.
RECURSIVE DExpSeries(_, _, _)
DExpSeries(r, k, last) ==
    IF k > last THEN DLit(1, 0)
    ELSE DAdd(DLit(1, 0),
              DMul(DDiv(r, DLit(k, 0)), DExpSeries(r, k + 1, last)))

\* f64::exp: exp(x) = 10^n * exp(x - n * ln 10) with n the integer nearest
\* to x / ln 10; infinite above ln(f64::MAX), zero far below.
DExp(x) ==
    IF x.k = "nan" THEN DNaN
    ELSE IF x.k = "inf" THEN DInf(1)
    ELSE IF x.k = "ninf" THEN DZero
    ELSE IF DLt(DLit(1000, 0), x) THEN DInf(1)
    ELSE IF DLt(x, DLit(-1000, 0)) THEN DZero
    ELSE LET scaled(v, n) == IF v.k = "fin" THEN DRanged(1, v.m, v.e + n) ELSE v
             reduced(n) ==
                 scaled(DExpSeries(DSub(DSub(x, DMul(DLit(n, 0), DLit(2302, -3))),
                                        DMul(DLit(n, 0), DLit(5851, -7))),
                                   1, 10),
                        n)
         IN  reduced(DNearest(DDiv(x, DLit(2303, -3))))

(***************************************************************************)
(* Bounds of the model and the inputs drawn within them.                   *)
(***************************************************************************)
MaxIterations == 2
MaxCalls == 2
MaxElapsed == 1
MaxDim == 2

One == Lit(1, 1)

\* OptimizerArgs: the defaults of extras.rs, with the iteration cap, the
\* radius ceiling and the message sink chosen by the caller.  The radius
\* ceilings are values of the model's format.  scalarity is off: the
\* constants of density_water lie outside the range of the model's format.
Sinks == { [max_delta |-> Lit(2, 1), use_terminal |-> TRUE],
           [max_delta |-> Lit(8, 1), use_terminal |-> FALSE] }

ArgsSet ==
    { [max_iterations |-> mi,
       max_delta |-> c.max_delta,
       eta |-> Lit(15, 100),
       norm_ratio_threshold |-> Lit(95, 100),
       rho_thresholds |-> <<Lit(25, 100), Lit(75, 100)>>,
       scale_factors |-> <<Lit(25, 100), Lit(2, 1)>>,
       use_terminal |-> c.use_terminal,
       scalarity |-> FALSE,
       temp_celsius |-> Lit(37, 1),
       verbose |-> FALSE] :
      mi \in 0..MaxIterations, c \in Sinks }

Problem(monomers, polymers, polymers_q_nonexp) ==
    [monomers |-> monomers, polymers |-> polymers,
     polymers_q_nonexp |-> polymers_q_nonexp]

\* Arrays of every shape up to MaxDim, well-formed or not.
ShapeInputs ==
    { Problem([i \in 1..m |-> One],
              Matrix(n, c, [k \in 1..n |-> [j \in 1..c |-> One]]),
              [k \in 1..l |-> 0]) :
      m \in 0..MaxDim, n \in 0..MaxDim, c \in 0..MaxDim, l \in 0..MaxDim }

\* A monomer that also forms a dimer of lower energy.
ChosenInputs ==
    { Problem(<<Lit(1, 2)>>,
              Matrix(2, 1, << <<One>>, <<Lit(2, 1)>> >>),
              <<0, Lit(-1, 1)>>) }

NewInputs == ShapeInputs \cup ChosenInputs

\* The initial radii a caller passes to optimize.
DeltaInputs ==
    { NAN, INF, NINF, 0, Lit(-1, 1), Lit(1, 4), Lit(8, 1), Lit(64, 1) }

(***************************************************************************)
(* The state.                                                              *)
(*   pc       where the caller is: "none" (no Optimizer), "idle" (between  *)
(*            calls), and inside optimize "solve" (top of the loop),       *)
(*            "apply" (after a successful solver call), "finish"           *)
(*   opt      the Optimizer struct (steihaug_trust_region included)        *)
(*   frame    the locals of the optimize call in progress                  *)
(*   terminal what the current optimize call has printed to stdout         *)
(*   new_in, new_ret   the shapes given to the last Optimizer::new call    *)
(*            and what it returned                                         *)
(*   arg, ret the argument and the return value of the last optimize call  *)
(*   calls    the number of optimize calls made                            *)
(*   obs      history of the current optimize call                         *)
(*   last     the outcome of the last optimize call that has returned:     *)
(*            its argument, what it returned, what get_results read then   *)
(*   prev     the outcome of the optimize call that returned before it     *)
(*   given, found   for the functions called on their own (the second      *)
(*            specification below): the function and the arguments of the  *)
(*            last call, and what it computed                              *)
(***************************************************************************)
VARIABLES pc, opt, frame, terminal, new_in, new_ret, arg, ret, calls, obs, last,
          prev, given, found

engine == <<pc, opt, frame, terminal, new_in, new_ret, arg, ret, calls, obs, last,
            prev>>
single == <<given, found>>
vars == <<engine, single>>

NoOptimizer == [max_iterations |-> 0]
NoFrame == [it |-> 0, final_it |-> 0, function |-> 0, gradient |-> <<>>,
            hessian |-> Matrix(0, 0, <<>>), epsilon |-> 0]
NoObs == [solver_calls |-> 0, failed |-> FALSE, exit |-> "none",
          lambda_start |-> <<>>, rejected |-> FALSE, iterations |-> 0]
NoCall == [fn |-> "none"]
NoOutcome == [valid |-> FALSE, arg |-> 0, ret |-> "none",
              results |-> [optimal_x |-> <<>>, optimal_lagrangian |-> 0,
                           optimal_lambda |-> <<>>, concentration_error |-> 0]]

\* Result<_, Box<dyn Error>>: "Ok(true)", or "Err: " and the error's text.
OkTrue == "Ok(true)"
Err(msg) == "Err: " \o msg
ErrDelta == Err("Initial delta value is not valid.")
ErrSteihaug == Err("The Steihaug optimization did not succeed")

Init ==
    /\ pc = "none"
    /\ opt = NoOptimizer
    /\ frame = NoFrame
    /\ terminal = <<>>
    /\ new_in = <<0, 0, 0, 0>>
    /\ new_ret = "none"
    /\ arg = 0
    /\ ret = "none"
    /\ calls = 0
    /\ obs = NoObs
    /\ last = NoOutcome
    /\ prev = NoOutcome
    /\ given = NoCall
    /\ found = NoCall

(***************************************************************************)
(* Optimizer::new                                                          *)
(***************************************************************************)
\* A validation without the comparison of the two counts.
new_check_unordered(monomers, polymers, polymers_q_nonexp) ==
    LET num_monomers == Len(monomers)
        num_polymers == polymers.nrows
    IN  IF num_monomers = 0 THEN "Monomers array is empty."
        ELSE IF num_polymers = 0 THEN "Polymers array is empty."
        ELSE IF num_monomers # polymers.ncols
        THEN "Monomers and polymer compositions inconsistent."
        ELSE IF num_polymers # Len(polymers_q_nonexp)
        THEN "Polymers and polymer quantities have different sizes."
        ELSE ""

\* The validation of new: the text of the error, "" when the shapes pass.
new_check(monomers, polymers, polymers_q_nonexp) ==
    LET num_monomers == Len(monomers)
        num_polymers == polymers.nrows
    IN  IF num_monomers = 0 THEN "Monomers array is empty."
        ELSE IF num_polymers = 0 THEN "Polymers array is empty."
        ELSE IF num_polymers < num_monomers
        THEN "Number of polymers is less than number of monomers."
        ELSE IF num_monomers # polymers.ncols
        THEN "Monomers and polymer compositions inconsistent."
        ELSE IF num_polymers # Len(polymers_q_nonexp)
        THEN "Polymers and polymer quantities have different sizes."
        ELSE ""

Optimizer_new(monomers, polymers, polymers_q_nonexp, optional_args) ==
    LET num_monomers == Len(monomers)
        num_polymers == polymers.nrows
        temp_celsius == optional_args.temp_celsius
        scalarity == optional_args.scalarity
        k_t == IF scalarity
               THEN FMul(Lit(198717, 100000000), FAdd(temp_celsius, Lit(27315, 100)))
               ELSE Lit(1, 1)
        scaled_monomers ==
            IF scalarity
            THEN [i \in 1..num_monomers |->
                     FDiv(monomers[i], density_water(temp_celsius))]
            ELSE monomers
        polymers_q ==
            [k \in 1..Len(polymers_q_nonexp) |->
                FExp(FDiv(FNeg(FMax(polymers_q_nonexp[k], SMALLEST_EXP_VALUE)), k_t))]
    IN  [monomers |-> scaled_monomers,
         polymers |-> polymers,
         polymers_q |-> polymers_q,
         max_iterations |-> optional_args.max_iterations,
         curr_iteration |-> 0,
         time_us |-> 0,
         delta |-> Lit(1, 1),
         max_delta |-> optional_args.max_delta,
         eta |-> optional_args.eta,
         norm_ratio_threshold |-> optional_args.norm_ratio_threshold,
         rho_thresholds |-> optional_args.rho_thresholds,
         scale_factors |-> optional_args.scale_factors,
         optimal_lambda |-> Zeros(num_monomers),
         optimal_x |-> Zeros(num_polymers),
         optimal_lagrangian |-> 0,
         steihaug_trust_region |-> Steihaug_new(optional_args.max_iterations,
                                                num_monomers),
         use_terminal |-> optional_args.use_terminal,
         verbose |-> optional_args.verbose,
         log_msgs |-> <<>>,
         scalarity |-> scalarity,
         temp_celsius |-> temp_celsius]

New ==
    /\ pc = "none"
    /\ \E in \in NewInputs, optional_args \in ArgsSet :
         LET e == new_check(in.monomers, in.polymers, in.polymers_q_nonexp)
         IN  /\ new_in' = <<Len(in.monomers), in.polymers.nrows,
                            in.polymers.ncols, Len(in.polymers_q_nonexp)>>
             /\ IF e # ""
                THEN /\ new_ret' = Err(e)
                     /\ UNCHANGED <<pc, opt>>
                ELSE /\ new_ret' = "Ok"
                     /\ pc' = "idle"
                     /\ opt' = Optimizer_new(in.monomers, in.polymers,
                                             in.polymers_q_nonexp, optional_args)
    /\ UNCHANGED <<frame, terminal, arg, ret, calls, obs, last, prev>>
    /\ UNCHANGED single

(***************************************************************************)
(* Optimizer::optimize, in the steps of its body.                          *)
(***************************************************************************)
\* print: to stdout, or to the log kept in the struct.  The pair of the
\* struct and stdout after it.
print(o, out, msg) ==
    IF o.use_terminal
    THEN [o |-> o, out |-> Append(out, msg)]
    ELSE [o |-> [o EXCEPT !.log_msgs = Append(@, msg)], out |-> out]

\* A check of the sign alone.
InvalidDelta_sign(initial_delta) == FLe(initial_delta, 0)

\* The check of the argument at the top of optimize.
InvalidDelta(initial_delta) == FLe(initial_delta, 0) \/ ~is_finite(initial_delta)

Outcome(o, a, r) ==
    LET kept(g) ==
            [valid |-> TRUE, arg |-> a, ret |-> r,
             results |-> [optimal_x |-> g.optimal_x,
                          optimal_lagrangian |-> g.optimal_lagrangian,
                          optimal_lambda |-> g.optimal_lambda,
                          concentration_error |-> g.concentration_error]]
    IN  kept(get_results(o))

\* The call, up to the first pass of the loop: the check of the argument,
\* the start message, the reset.
OptimizeEnter ==
    /\ pc = "idle"
    /\ calls < MaxCalls
    /\ \E initial_delta \in DeltaInputs :
         /\ arg' = initial_delta
         /\ IF InvalidDelta(initial_delta)
            THEN /\ ret' = ErrDelta
                 /\ obs' = [NoObs EXCEPT !.exit = "invalid"]
                 /\ terminal' = <<>>
                 /\ last' = Outcome(opt, initial_delta, ErrDelta)
                 /\ UNCHANGED <<pc, opt, frame>>
            ELSE LET p == print(opt, <<>>, start_message)
                     o1 == [p.o EXCEPT !.delta = initial_delta]
                 IN  /\ opt' = reset(o1)
                     /\ terminal' = p.out
                     /\ frame' = NoFrame
                     /\ obs' = NoObs
                     /\ ret' = "none"
                     /\ pc' = "solve"
                     /\ UNCHANGED last
    /\ calls' = calls + 1
    /\ prev' = last
    /\ UNCHANGED <<new_in, new_ret>>
    /\ UNCHANGED single

\* A failure that returns the error without the summary.
solver_failure_silent(o, out, it, success, t) ==
    [p |-> [o |-> [o EXCEPT !.time_us = t], out |-> out], ret |-> ErrSteihaug]

\* What optimize returns when the solver has failed.
solver_failure(o, out, it, success, t) ==
    LET o1 == [o EXCEPT !.time_us = t]
    IN  [p |-> print(o1, out, conclude_message(it, success, o1.time_us, o1.verbose,
                                               [some |-> FALSE])),
         ret |-> ErrSteihaug]

\* The tolerance handed to the solver.
\* The tolerance without the square root.
tolerance_of_norm(gradient) ==
    LET scaled(step) == FMul(FMin(step, Lit(1, 2)), step)
    IN  scaled(norm(gradient))

tolerance(gradient) ==
    LET scaled(step) == FMul(FMin(FSqrt(step), Lit(1, 2)), step)
    IN  scaled(norm(gradient))

\* One pass of the loop up to the solver's answer: the Lagrangian, its
\* gradient and Hessian at the current lambda, the tolerance, the solver.
IterSolve ==
    /\ pc = "solve"
    /\ frame.it < opt.max_iterations
    /\ LET answered(o1, gradient, hess, epsilon, r) ==
               /\ obs' = [obs EXCEPT !.solver_calls = @ + 1,
                                     !.failed = ~r.success,
                                     !.exit = IF r.success THEN @ ELSE "solver",
                                     !.lambda_start = opt.optimal_lambda,
                                     !.rejected = FALSE]
               /\ IF ~r.success
                  THEN \E t \in 0..MaxElapsed :
                         LET f == solver_failure(
                                      [o1 EXCEPT !.steihaug_trust_region = r.st],
                                      terminal, frame.it, r.success, t)
                         IN  /\ opt' = f.p.o
                             /\ terminal' = f.p.out
                             /\ ret' = f.ret
                             /\ last' = Outcome(opt', arg, ret')
                             /\ frame' = NoFrame
                             /\ pc' = "idle"
                  ELSE /\ opt' = [o1 EXCEPT !.steihaug_trust_region = r.st]
                       /\ frame' = [frame EXCEPT
                                        !.function = o1.optimal_lagrangian,
                                        !.gradient = gradient,
                                        !.hessian = hess,
                                        !.epsilon = epsilon]
                       /\ pc' = "apply"
                       /\ UNCHANGED <<terminal, ret, last>>
           called(o1, gradient, hess, epsilon) ==
               answered(o1, gradient, hess, epsilon,
                        iterate(o1.steihaug_trust_region, gradient, hess,
                                epsilon, o1.delta))
           solved(o1, gradient, hess) ==
               called(o1, gradient, hess, tolerance(gradient))
           derived(o1, pl, gradient) ==
               solved(o1, gradient,
                      hessian(o1, pl, o1.optimal_lagrangian, gradient))
           evaluated(o1, pl) ==
               derived(o1, pl, jacobian(o1, pl, o1.optimal_lagrangian))
           exponentiated(pl) ==
               evaluated([opt EXCEPT !.optimal_lagrangian = lagrangian(opt, pl)],
                         pl)
       IN  exponentiated(polymer_lambdas(opt))
    /\ UNCHANGED <<new_in, new_ret, arg, calls, prev>>
    /\ UNCHANGED single

\* The reduction ratio.
reduction_ratio(actual_reduction, pred_reduction) ==
    IF FNe(pred_reduction, 0) THEN FDiv(actual_reduction, pred_reduction) ELSE 0

\* An adaptation that never enlarges the radius.
adapt_delta_shrinking(o, rho, update_step) ==
    IF FLt(rho, o.rho_thresholds[1])
    THEN [o EXCEPT !.delta = FMul(@, o.scale_factors[1])]
    ELSE o

\* The adaptation of the radius.
adapt_delta(o, rho, update_step) ==
    IF FLt(rho, o.rho_thresholds[1])
    THEN [o EXCEPT !.delta = FMul(@, o.scale_factors[1])]
    ELSE IF FGt(rho, o.rho_thresholds[2])
            /\ FGe(norm(update_step), FMul(o.norm_ratio_threshold, o.delta))
    THEN [o EXCEPT !.delta = FMin(o.max_delta, FMul(o.scale_factors[2], o.delta))]
    ELSE o

\* The rejection of the step.
reject_step(o, rho, update_step) ==
    IF FLe(rho, o.eta)
    THEN LET removed(o1) ==
                 [o1 EXCEPT !.optimal_lagrangian =
                                lagrangian(o1, polymer_lambdas(o1))]
         IN  removed([o EXCEPT !.optimal_lambda = VSub(@, update_step)])
    ELSE o

\* The quadratic model's reduction along the step.
pred_reduction(gradient, hess, update_step) ==
    FNeg(FAdd(dot(gradient, update_step),
              FMul(Lit(1, 2), dot(update_step, MatVec(hess, update_step)))))

\* The rest of the pass: the step is applied, judged, kept or removed.
IterApply ==
    /\ pc = "apply"
    /\ LET printed(p, rho) ==
               /\ opt' = [p.o EXCEPT !.curr_iteration = @ + 1]
               /\ terminal' = p.out
               /\ frame' = [NoFrame EXCEPT !.it = frame.it + 1,
                                           !.final_it = frame.it]
               /\ obs' = [obs EXCEPT !.rejected = FLe(rho, opt.eta),
                                     !.iterations = @ + 1]
               /\ pc' = "solve"
           updated(o5, rho) ==
               printed(print(o5, terminal,
                             process_message(frame.it, o5.optimal_lagrangian,
                                             error(o5))),
                       rho)
           judged(o2, update_step, actual_reduction, rho) ==
               IF FEq(actual_reduction, 0)
               THEN /\ opt' = o2
                    /\ frame' = [frame EXCEPT !.final_it = frame.it]
                    /\ obs' = [obs EXCEPT !.exit = "converged"]
                    /\ pc' = "finish"
                    /\ UNCHANGED terminal
               ELSE updated(update_optimal_x(
                                reject_step(adapt_delta(o2, rho, update_step),
                                            rho, update_step)),
                            rho)
           reduced(o2, update_step, actual_reduction) ==
               judged(o2, update_step, actual_reduction,
                      reduction_ratio(actual_reduction,
                                      pred_reduction(frame.gradient, frame.hessian,
                                                     update_step)))
           evaluated(o2, update_step) ==
               reduced(o2, update_step,
                       FSub(frame.function, o2.optimal_lagrangian))
           moved(o1, update_step) ==
               evaluated([o1 EXCEPT !.optimal_lagrangian =
                                        lagrangian(o1, polymer_lambdas(o1))],
                         update_step)
           stepped(update_step) ==
               moved([opt EXCEPT !.optimal_lambda = VAdd(@, update_step)],
                     update_step)
       IN  stepped(get_result(opt.steihaug_trust_region))
    /\ UNCHANGED <<new_in, new_ret, arg, ret, calls, last, prev>>
    /\ UNCHANGED single

\* A return after the loop that reports the end of the loop as an error.
optimize_result_error == Err("The optimization did not converge")

\* What optimize returns after the loop.
optimize_result == OkTrue

\* After the loop, left by the break or by the end of the range.
OptimizeFinish ==
    /\ \/ pc = "finish"
       \/ pc = "solve" /\ frame.it >= opt.max_iterations
    /\ \E t \in 0..MaxElapsed :
         LET printed(p) == opt' = p.o /\ terminal' = p.out
             timed(o2) ==
                 printed(print(o2, terminal,
                               conclude_message(frame.final_it, TRUE, o2.time_us,
                                                o2.verbose,
                                                [some |-> TRUE,
                                                 r |-> get_results(o2)])))
             updated(o1) == timed([o1 EXCEPT !.time_us = t])
         IN  updated(update_optimal_x(opt))
    /\ ret' = optimize_result
    /\ last' = Outcome(opt', arg, ret')
    /\ obs' = [obs EXCEPT !.exit = IF pc = "finish" THEN @ ELSE "exhausted"]
    /\ frame' = NoFrame
    /\ pc' = "idle"
    /\ UNCHANGED <<new_in, new_ret, arg, calls, prev>>
    /\ UNCHANGED single

\* Optimizer::reset, called by the user between two calls of optimize.
Reset ==
    /\ pc = "idle"
    /\ opt # reset(opt)
    /\ opt' = reset(opt)
    /\ UNCHANGED <<pc, frame, terminal, new_in, new_ret, arg, ret, calls, obs, last,
                   prev>>
    /\ UNCHANGED single

Next ==
    \/ New
    \/ OptimizeEnter
    \/ IterSolve
    \/ IterApply
    \/ OptimizeFinish
    \/ Reset

Spec == Init /\ [][Next]_vars

(***************************************************************************)
(* The second specification: functions of the program called on their own, *)
(* one call in a behaviour, with arguments drawn from a bounded set.  No   *)
(* Optimizer is involved: the variables of the engine stay as Init leaves  *)
(* them.                                                                   *)
(***************************************************************************)

\* new, from the raw energy of one polymer to the stored one: k_t, the
\* argument of exp and exp of it (the closure mapped over polymers_q_nonexp).
SMALLEST_EXP_VALUE_d == DLit(-230, 0)

k_t(scalarity, temp_celsius) ==
    IF scalarity
    THEN DMul(DLit(198717, -8), DAdd(temp_celsius, DLit(27315, -2)))
    ELSE DLit(1, 0)

polymers_q_arg(x, kt) == DDiv(DNeg(DMax(x, SMALLEST_EXP_VALUE_d)), kt)

polymers_q_d(x, scalarity, temp_celsius) ==
    DExp(polymers_q_arg(x, k_t(scalarity, temp_celsius)))

\* Raw energies, whole numbers up to MaxEnergy hundreds either side of 0 and
\* the clamp's neighbours; temperatures in degrees Celsius, from the boiling
\* point of nitrogen to that of water.
MaxEnergy == 10

EnergyInputs ==
    { DLit(100 * h, 0) : h \in -MaxEnergy..MaxEnergy }
        \cup { DLit(x, 0) : x \in {-231, -230, -229, -1, 1, 229, 230, 231} }

TempInputs == { DLit(t, 0) : t \in {-196, -150, -100, 0, 4, 25, 37, 100} }

CallPolymersQ ==
    /\ given = NoCall
    /\ \E x \in EnergyInputs, scalarity \in BOOLEAN, temp_celsius \in TempInputs :
         /\ given' = [fn |-> "polymers_q", x |-> x, scalarity |-> scalarity,
                      temp_celsius |-> temp_celsius]
         /\ found' = [fn |-> "polymers_q",
                      arg |-> polymers_q_arg(x, k_t(scalarity, temp_celsius)),
                      q |-> polymers_q_d(x, scalarity, temp_celsius)]
    /\ UNCHANGED engine

(***************************************************************************)
(* iterate in exact arithmetic: what its f64 operations compute when none  *)
(* of them rounds.  A number is a fraction n/d in lowest terms with d > 0; *)
(* the result of a division by zero is RUndef, which every operation hands *)
(* on and with which every comparison is false.  norm(v) is compared       *)
(* through its square, v.v.                                                *)
(***************************************************************************)
RECURSIVE GCD(_, _)
GCD(a, b) == IF b = 0 THEN a ELSE GCD(b, a % b)

RUndef == [n |-> 0, d |-> 0]

Rat(n, d) ==
    IF d = 0 THEN RUndef
    ELSE LET reduced(g) == [n |-> (Sign(d) * n) \div g, d |-> Mag(d) \div g]
         IN  reduced(GCD(Mag(n), Mag(d)))

RZero == Rat(0, 1)
RNeg(x) == [n |-> -x.n, d |-> x.d]

\* The operations divide out common factors before they multiply, so that
\* the whole numbers they pass through stay small.
RAdd(x, y) ==
    IF x.d = 0 \/ y.d = 0 THEN RUndef
    ELSE LET over(g) ==
                 Rat(x.n * (y.d \div g) + y.n * (x.d \div g), (x.d \div g) * y.d)
         IN  over(GCD(x.d, y.d))

RSub(x, y) == RAdd(x, RNeg(y))

RMul(x, y) ==
    IF x.d = 0 \/ y.d = 0 THEN RUndef
    ELSE LET crossed(g, h) ==
                 Rat((x.n \div g) * (y.n \div h), (x.d \div h) * (y.d \div g))
         IN  crossed(GCD(Mag(x.n), y.d), GCD(Mag(y.n), x.d))

RDiv(x, y) ==
    IF y.d = 0 \/ y.n = 0 THEN RUndef
    ELSE RMul(x, [n |-> Sign(y.n) * y.d, d |-> Mag(y.n)])

RLt(x, y) ==
    /\ x.d # 0
    /\ y.d # 0
    /\ LET g == GCD(x.d, y.d) IN x.n * (y.d \div g) < y.n * (x.d \div g)

RLe(x, y) ==
    /\ x.d # 0
    /\ y.d # 0
    /\ LET g == GCD(x.d, y.d) IN x.n * (y.d \div g) <= y.n * (x.d \div g)

RVAdd(a, b) == [i \in 1..Len(a) |-> RAdd(a[i], b[i])]
RVSub(a, b) == [i \in 1..Len(a) |-> RSub(a[i], b[i])]
RVScale(c, v) == [i \in 1..Len(v) |-> RMul(c, v[i])]
RVNeg(v) == [i \in 1..Len(v) |-> RNeg(v[i])]

RECURSIVE RDotFrom(_, _, _, _)
RDotFrom(a, b, i, acc) ==
    IF i > Len(a) THEN acc
    ELSE RDotFrom(a, b, i + 1, RAdd(acc, RMul(a[i], b[i])))

RDot(a, b) == RDotFrom(a, b, 1, RZero)
RMatVec(m, v) == [i \in 1..m.nrows |-> RDot(m.a[i], v)]

\* norm(v) < c and norm(v) >= c.
norm_lt(v, c) == RLt(RZero, c) /\ RLt(RDot(v, v), RMul(c, c))
norm_ge(v, c) == RLe(c, RZero) \/ RLe(RMul(c, c), RDot(v, v))

\* The boundary exit.  The root tau = (-b + sqrt(b^2 - 4ac)) / 2a is a real
\* number and seldom a fraction: the result keeps the solver as it is before
\* the exit and says that the step is curr_zstep + tau * curr_dstep.  The
\* root is a finite number when a is not zero and b^2 - 4ac is not negative.
early_update_zstep_exact(s, delta) ==
    LET judged(a, disc) ==
            [success |-> a.d # 0 /\ a.n # 0 /\ RLe(RZero, disc),
             boundary |-> TRUE, st |-> s, curvatures |-> <<>>]
        quadratic(a, b, c) ==
            judged(a, RSub(RMul(b, b), RMul(RMul(Rat(4, 1), a), c)))
    IN  quadratic(RDot(s.curr_dstep, s.curr_dstep),
                  RMul(Rat(2, 1), RDot(s.curr_zstep, s.curr_dstep)),
                  RSub(RDot(s.curr_zstep, s.curr_zstep), RMul(delta, delta)))

\* A direction that adds the new residual.
new_dstep_added(beta, dstep, new_rstep) == RVAdd(RVScale(beta, dstep), new_rstep)

\* The next search direction.
new_dstep(beta, dstep, new_rstep) == RVSub(RVScale(beta, dstep), new_rstep)

\* The result also lists the curvature each inner pass has computed, in the
\* order of the passes.
RECURSIVE cg_loop_exact(_, _, _, _, _)
cg_loop_exact(s, hess, eps, delta, i) ==
    IF i >= s.vector_size
    THEN [success |-> TRUE, boundary |-> FALSE,
          st |-> [s EXCEPT !.curr_iterations = @ + 1], curvatures |-> <<>>]
    ELSE
    LET continued(new_zstep, new_rstep, beta) ==
            cg_loop_exact([s EXCEPT !.curr_dstep =
                                        new_dstep(beta, s.curr_dstep, new_rstep),
                                    !.curr_zstep = new_zstep,
                                    !.curr_rstep = new_rstep],
                          hess, eps, delta, i + 1)
        stepped(new_zstep, new_rstep, rr) ==
            IF norm_ge(new_zstep, delta) THEN early_update_zstep_exact(s, delta)
            ELSE IF norm_lt(new_rstep, eps)
            THEN [success |-> TRUE, boundary |-> FALSE,
                  st |-> [s EXCEPT !.curr_zstep = new_zstep], curvatures |-> <<>>]
            ELSE continued(new_zstep, new_rstep,
                           RDiv(RDot(new_rstep, new_rstep), rr))
        scaled(Hd, rr, alpha) ==
            stepped(RVAdd(s.curr_zstep, RVScale(alpha, s.curr_dstep)),
                    RVAdd(s.curr_rstep, RVScale(alpha, Hd)), rr)
        observed(r, curvature) == [r EXCEPT !.curvatures = <<curvature>> \o @]
        measured(Hd, rr, curvature) ==
            observed(scaled(Hd, rr, RDiv(rr, curvature)), curvature)
        curved(Hd, rr) == measured(Hd, rr, RDot(s.curr_dstep, Hd))
    IN  curved(RMatVec(hess, s.curr_dstep), RDot(s.curr_rstep, s.curr_rstep))

iterate_exact(s, gradient, hess, eps, delta) ==
    IF CapReached(s)
    THEN [success |-> FALSE, boundary |-> FALSE, st |-> s, curvatures |-> <<>>]
    ELSE
    LET started(s0) ==
            IF norm_lt(s0.curr_rstep, eps)
            THEN [success |-> TRUE, boundary |-> FALSE, st |-> s0,
                  curvatures |-> <<>>]
            ELSE cg_loop_exact(s0, hess, eps, delta, 0)
    IN  started([s EXCEPT !.curr_zstep = [i \in 1..s.vector_size |-> RZero],
                          !.curr_rstep = gradient,
                          !.curr_dstep = RVNeg(gradient)])

\* Symmetric matrices of every size up to MaxDim with whole entries, one
\* value off the diagonal; whole gradients; a tolerance of zero or small; a
\* radius small or large.
RECURSIVE Tuples(_, _)
Tuples(n, S) ==
    IF n = 0 THEN {<<>>}
    ELSE { Append(t, x) : t \in Tuples(n - 1, S), x \in S }

HessianInputs(n) ==
    { Matrix(n, n, [i \in 1..n |->
                       [j \in 1..n |-> Rat(IF i = j THEN diag[i] ELSE off, 1)]]) :
      diag \in Tuples(n, {-1, 1, 2}), off \in {-1, 0, 1} }

GradientInputs(n) == { [i \in 1..n |-> Rat(t[i], 1)] : t \in Tuples(n, {-1, 0, 1}) }

CallIterateExact ==
    /\ given = NoCall
    /\ \E n \in 1..MaxDim :
         \E gradient \in GradientInputs(n), hess \in HessianInputs(n),
            eps \in {RZero, Rat(1, 10)}, delta \in {Rat(1, 2), Rat(10, 1)} :
             /\ given' = [fn |-> "iterate_exact", gradient |-> gradient,
                          hessian |-> hess, eps |-> eps, delta |-> delta]
             /\ found' = iterate_exact(Steihaug_new(1, n), gradient, hess, eps,
                                       delta)
    /\ UNCHANGED engine

\* density_water on the decimal format.
density_water_d(t) ==
    LET a1 == DLit(-3983035, -6)
        a2 == DLit(301797, -3)
        a3 == DLit(5225289, -1)
        a4 == DLit(6934881, -5)
        a5 == DLit(999974950, -6)
        squared(t1) == DMul(t1, t1)
        frac == DDiv(DDiv(DMul(squared(DAdd(t, a1)), DAdd(t, a2)), a3), DAdd(t, a4))
    IN  DDiv(DMul(a5, DSub(DLit(1, 0), frac)), DLit(180152, -4))

CallDensityWater ==
    /\ given = NoCall
    /\ \E t \in TempInputs :
           /\ given' = [fn |-> "density_water", t |-> t]
           /\ found' = [fn |-> "density_water", density |-> density_water_d(t)]
    /\ UNCHANGED engine

\* ---------------------------------------------------------------------
\* The command line of coffee_cli.  An argument is the tuple of its
\* characters; the program name that precedes the arguments is left out.
\* ---------------------------------------------------------------------
\* get_file answers None for an argument that was not given.
NoPath == <<>>

ends_with(file, ext) ==
    /\ Len(file) >= Len(ext)
    /\ SubSeq(file, Len(file) - Len(ext) + 1, Len(file)) = ext

\* The arguments command() declares, in its order: the name, the position
\* of a positional (0 for an option), the short and the long spelling,
\* whether a value follows, and the extensions the value may end with.
command ==
    << [id |-> "cfe", index |-> 1, short |-> NoPath, long |-> NoPath, value |-> TRUE,
        allowed_extensions |-> { <<".", "c", "f", "e">>, <<".", "o", "c", "x">>,
                                 <<".", "t", "x", "t">>, <<".", "c", "s", "v">>,
                                 <<".", "t", "s", "v">> }],
       [id |-> "con", index |-> 2, short |-> NoPath, long |-> NoPath, value |-> TRUE,
        allowed_extensions |-> { <<".", "c", "o", "n">>, <<".", "t", "x", "t">>,
                                 <<".", "c", "s", "v">>, <<".", "t", "s", "v">> }],
       [id |-> "log", index |-> 0, short |-> <<"-", "l">>,
        long |-> <<"-", "-", "l", "o", "g">>, value |-> TRUE,
        allowed_extensions |-> { <<".", "t", "x", "t">>, <<".", "l", "o", "g">> }],
       [id |-> "output", index |-> 0, short |-> <<"-", "o">>,
        long |-> <<"-", "-", "o", "u", "t", "p", "u", "t">>, value |-> TRUE,
        allowed_extensions |-> { <<".", "t", "x", "t">>, <<".", "l", "o", "g">> }],
       [id |-> "verbose", index |-> 0, short |-> <<"-", "v">>,
        long |-> <<"-", "-", "v", "e", "r", "b", "o", "s", "e">>, value |-> FALSE,
        allowed_extensions |-> {}] >>

value_parser(a, file) == \E ext \in a.allowed_extensions : ends_with(file, ext)

\* A reading of the options in which every option spells the log option.
option_of_log(token) == IF token[1] = "-" THEN 3 ELSE 0

\* The declared option an argument spells, or 0 when it spells none.
option_of(token) ==
    IF \E k \in 1..Len(command) :
           command[k].index = 0 /\ token \in {command[k].short, command[k].long}
    THEN CHOOSE k \in 1..Len(command) :
           command[k].index = 0 /\ token \in {command[k].short, command[k].long}
    ELSE 0

positional_of(index) ==
    IF \E k \in 1..Len(command) : command[k].index = index
    THEN CHOOSE k \in 1..Len(command) : command[k].index = index
    ELSE 0

\* What get_file and verbose read when nothing has been matched yet.
NoMatches ==
    [ok |-> TRUE, cfe |-> NoPath, con |-> NoPath, log |-> NoPath, output |-> NoPath,
     verbose |-> FALSE]

ParseErr == [ok |-> FALSE]

\* One pass over the arguments from the i-th on: an argument that begins
\* with a hyphen must spell a declared option, an option that takes a value
\* takes the next argument, no option may be given twice, every other
\* argument fills the next position, and every value must pass its parser.
RECURSIVE parse_from(_, _, _, _)
parse_from(argv, i, index, matches) ==
    IF i > Len(argv)
    THEN IF \E k \in 1..Len(command) :
                command[k].index > 0 /\ matches[command[k].id] = NoPath
         THEN ParseErr
         ELSE matches
    ELSE IF argv[i] # NoPath /\ argv[i][1] = "-"
    THEN LET taken(k) ==
                 IF k = 0 THEN ParseErr
                 ELSE IF ~command[k].value
                 THEN IF matches[command[k].id] THEN ParseErr
                      ELSE parse_from(argv, i + 1, index,
                                      [matches EXCEPT ![command[k].id] = TRUE])
                 ELSE IF \/ matches[command[k].id] # NoPath
                         \/ i = Len(argv)
                         \/ argv[i + 1] = NoPath
                         \/ argv[i + 1][1] = "-"
                         \/ ~value_parser(command[k], argv[i + 1])
                 THEN ParseErr
                 ELSE parse_from(argv, i + 2, index,
                                 [matches EXCEPT ![command[k].id] = argv[i + 1]])
         IN  taken(option_of(argv[i]))
    ELSE LET placed(k) ==
                 IF k = 0 \/ ~value_parser(command[k], argv[i]) THEN ParseErr
                 ELSE parse_from(argv, i + 1, index + 1,
                                 [matches EXCEPT ![command[k].id] = argv[i]])
         IN  placed(positional_of(index))

try_get_matches_from(argv) == parse_from(argv, 1, 1, NoMatches)

MaxArgs == 4

ArgInputs ==
    { <<"a", ".", "o", "c", "x">>, <<"b", ".", "c", "o", "n">>,
      <<"c", ".", "t", "x", "t">> }
    \cup { command[k].short : k \in 3..5 } \cup { command[k].long : k \in 3..5 }

RECURSIVE ArgvInputs(_)
ArgvInputs(n) ==
    IF n = 0 THEN { <<>> }
    ELSE LET shorter == ArgvInputs(n - 1)
         IN  shorter \cup { Append(argv, token) :
                                argv \in { a \in shorter : Len(a) = n - 1 },
                                token \in ArgInputs }

CallParse ==
    /\ given = NoCall
    /\ \E argv \in ArgvInputs(MaxArgs) :
           /\ given' = [fn |-> "try_get_matches_from", argv |-> argv]
           /\ found' = [fn |-> "try_get_matches_from",
                        matches |-> try_get_matches_from(argv)]
    /\ UNCHANGED engine

\* ---------------------------------------------------------------------
\* parse_float of fileparse.rs on a text column.  An entry is the tuple of
\* its characters, a number a value of the decimal format.
\* ---------------------------------------------------------------------
\* The value of a run of decimal digits, or -1 when the run is empty or
\* holds another character.
RECURSIVE digits_from(_, _, _)
digits_from(str, i, acc) ==
    IF i > Len(str) THEN (IF str = <<>> THEN -1 ELSE acc)
    ELSE LET numerals == <<"0", "1", "2", "3", "4", "5", "6", "7", "8", "9">>
         IN  IF \E k \in 1..10 : numerals[k] = str[i]
             THEN digits_from(str, i + 1,
                              10 * acc + (CHOOSE k \in 1..10 : numerals[k] = str[i]) - 1)
             ELSE -1

\* str::split_once: the parts before and after the first c, if there is one.
split_once(str, c) ==
    IF \E i \in 1..Len(str) : str[i] = c
    THEN LET at == CHOOSE i \in 1..Len(str) :
                       str[i] = c /\ \A j \in 1..(i - 1) : str[j] # c
         IN  [some |-> TRUE, before |-> SubSeq(str, 1, at - 1),
              after |-> SubSeq(str, at + 1, Len(str))]
    ELSE [some |-> FALSE, before |-> str, after |-> <<>>]

\* str::trim for the one kind of white space the entries may hold.
RECURSIVE trim(_)
trim(str) ==
    IF str # <<>> /\ str[1] = " " THEN trim(Tail(str))
    ELSE IF str # <<>> /\ str[Len(str)] = " " THEN trim(SubSeq(str, 1, Len(str) - 1))
    ELSE str

\* str::parse::<i32>: an optional sign and one digit or more.
parse_i32(str) ==
    LET signed(sgn, rest) ==
            IF digits_from(rest, 1, 0) < 0 THEN [ok |-> FALSE, v |-> 0]
            ELSE [ok |-> TRUE, v |-> sgn * digits_from(rest, 1, 0)]
    IN  IF str # <<>> /\ str[1] = "-" THEN signed(-1, Tail(str))
        ELSE IF str # <<>> /\ str[1] = "+" THEN signed(1, Tail(str))
        ELSE signed(1, str)

\* str::parse::<f64>: an optional sign, digits with at most one point and
\* at least one digit, and an optional exponent; the value is the decimal
\* number written, rounded to the format.
parse_f64(str) ==
    LET failed == [ok |-> FALSE, v |-> DZero]
        valued(sgn, whole, fraction, exp) ==
            IF (whole # <<>> /\ digits_from(whole, 1, 0) < 0)
               \/ (fraction # <<>> /\ digits_from(fraction, 1, 0) < 0)
               \/ (whole = <<>> /\ fraction = <<>>)
            THEN failed
            ELSE [ok |-> TRUE,
                  v |-> DMul(DLit(sgn, 0),
                             DLit(digits_from(whole \o fraction, 1, 0),
                                  exp - Len(fraction)))]
        pointed(sgn, mantissa, exp) ==
            valued(sgn, split_once(mantissa, ".").before,
                   split_once(mantissa, ".").after, exp)
        powered(sgn, parts) ==
            IF ~parts.some THEN pointed(sgn, parts.before, 0)
            ELSE IF ~parse_i32(parts.after).ok THEN failed
            ELSE pointed(sgn, parts.before, parse_i32(parts.after).v)
        signed(sgn, rest) == powered(sgn, split_once(rest, "e"))
    IN  IF str # <<>> /\ str[1] = "-" THEN signed(-1, Tail(str))
        ELSE IF str # <<>> /\ str[1] = "+" THEN signed(1, Tail(str))
        ELSE signed(1, str)

\* What the loop body of parse_float does with one entry: it pushes a
\* number, returns the error, or goes on to the next entry.
parse_float_entry(value_str) ==
    LET push(v) == [do |-> "push", v |-> v]
        refuse == [do |-> "return", v |-> DZero]
        skip == [do |-> "next", v |-> DZero]
        exponent_form(base, exponent) ==
            IF parse_f64(trim(base)).ok
            THEN IF parse_i32(trim(exponent)).ok
                 THEN push(DMul(parse_f64(trim(base)).v,
                                DLit(1, parse_i32(trim(exponent)).v)))
                 ELSE refuse
            ELSE skip
        decimal_form(base_value, decimal_value) ==
            IF parse_f64(trim(base_value)).ok
            THEN IF decimal_value = <<>>
                 THEN push(parse_f64(trim(base_value)).v)
                 ELSE IF parse_f64(trim(decimal_value)).ok
                 THEN push(DAdd(parse_f64(trim(base_value)).v,
                                DDiv(parse_f64(trim(decimal_value)).v,
                                     DLit(1, Len(decimal_value)))))
                 ELSE refuse
            ELSE refuse
    IN  IF \E i \in 1..Len(value_str) : value_str[i] = "e"
        THEN exponent_form(split_once(value_str, "e").before,
                           split_once(value_str, "e").after)
        ELSE decimal_form(split_once(value_str, ".").before,
                          split_once(value_str, ".").after)

\* The loop of parse_float over a Utf8 series from its index-th entry on.
RECURSIVE parse_float(_, _, _)
parse_float(series, index, float_values) ==
    IF index > Len(series) THEN [ok |-> TRUE, float_values |-> float_values]
    ELSE LET done(step) ==
                 IF step.do = "return" THEN [ok |-> FALSE, float_values |-> <<>>]
                 ELSE IF step.do = "push"
                 THEN parse_float(series, index + 1, Append(float_values, step.v))
                 ELSE parse_float(series, index + 1, float_values)
         IN  done(parse_float_entry(series[index]))

MaxChars == 4

\* Every entry of up to n characters over a sign, two digits, the point,
\* the exponent mark and the blank.
RECURSIVE EntryInputs(_)
EntryInputs(n) ==
    IF n = 0 THEN { <<>> }
    ELSE LET shorter == EntryInputs(n - 1)
         IN  shorter \cup { Append(str, c) :
                                str \in { t \in shorter : Len(t) = n - 1 },
                                c \in {"-", "1", "5", ".", "e", " "} }

\* Columns of one entry, and of two entries of half the length.
CallParseFloat ==
    /\ given = NoCall
    /\ \E series \in { <<v>> : v \in EntryInputs(MaxChars) }
                      \cup { <<v, w>> : v, w \in EntryInputs(MaxChars \div 2) } :
           /\ given' = [fn |-> "parse_float", series |-> series]
           /\ found' = [fn |-> "parse_float", result |-> parse_float(series, 1, <<>>)]
    /\ UNCHANGED engine

NextCalls ==
    \/ CallPolymersQ
    \/ CallIterateExact
    \/ CallDensityWater
    \/ CallParse
    \/ CallParseFloat

SpecCalls == Init /\ [][NextCalls]_vars

(***************************************************************************)
(* The properties.                                                         *)
(***************************************************************************)

C2_InvalidDeltaRejected ==
    [][/\ (calls' > 0 /\ (~is_finite(arg') \/ arg' <= 0)) =>
              /\ ret' = ErrDelta
              /\ pc' = "idle"
              /\ obs'.solver_calls = 0
              /\ obs'.iterations = 0
       /\ (calls' = calls + 1 /\ (~is_finite(arg') \/ arg' <= 0)) => opt' = opt]_vars

\* optimize has refused a NaN.
C2_Witness == calls > 0 /\ is_nan(arg) /\ ret = ErrDelta /\ pc = "idle"

C4_SolverFailureAborts ==
    [][/\ obs'.failed => pc' = "idle" /\ ret' = ErrSteihaug
       /\ (pc = "solve" /\ obs'.failed) =>
              /\ obs'.solver_calls = obs.solver_calls + 1
              /\ opt'.optimal_lambda = opt.optimal_lambda
              /\ opt'.delta = opt.delta
              /\ opt'.curr_iteration = opt.curr_iteration
              /\ LET before == IF opt.use_terminal THEN terminal ELSE opt.log_msgs
                     after == IF opt.use_terminal THEN terminal' ELSE opt'.log_msgs
                 IN  /\ Len(after) = Len(before) + 1
                     /\ after[Len(after)].kind = "conclude"
                     /\ after[Len(after)].success = FALSE
                     /\ after[Len(after)].it = frame.it]_vars

\* optimize has returned the solver's failure from a pass after the first.
C4_Witness ==
    /\ pc = "idle"
    /\ obs.failed
    /\ obs.iterations > 0
    /\ ret = ErrSteihaug

\* C5: after optimize has returned the solver's failure from pass k, lambda
\* is the lambda left by pass k - 1 (the zero vector when k = 0), and
\* optimal_x and optimal_lagrangian read by get_results are the values
\* derived from that lambda.
C5_FailureLeavesConsistentState ==
    [][(pc = "solve" /\ obs'.failed) =>
           /\ opt'.optimal_lambda = opt.optimal_lambda
           /\ frame.it = 0 => opt'.optimal_lambda = Zeros(Len(opt.monomers))
           /\ get_results(opt').optimal_x = update_optimal_x(opt').optimal_x
           /\ get_results(opt').optimal_lagrangian =
                  lagrangian(opt', polymer_lambdas(opt'))]_vars

\* C6: after every solver call that returns success, the step read by
\* get_result has a norm of at most delta.
C6_StepWithinRadius ==
    [][(pc = "solve" /\ pc' = "apply") =>
           FLe(norm(get_result(opt'.steihaug_trust_region)), opt'.delta)]_vars

\* C7: at the end of every pass whose step is rejected (rho <= eta), lambda
\* equals lambda at the start of the pass, and optimal_lagrangian is the
\* Lagrangian at that lambda.
C7_RejectionRestoresLambda ==
    [][(pc = "apply" /\ pc' = "solve" /\ obs'.rejected) =>
           /\ opt'.optimal_lambda = opt.optimal_lambda
           /\ opt'.optimal_lagrangian =
                  lagrangian(opt', polymer_lambdas(opt'))]_vars

\* C8: two calls of optimize on the same Optimizer with the same valid
\* initial_delta have the same outcome: the same return value, lambda,
\* optimal_x, Lagrangian and concentration error.
C8_RepeatedCallsAgree ==
    (pc = "idle" /\ prev.valid /\ last.valid /\ prev.arg = last.arg
        /\ is_finite(last.arg) /\ last.arg > 0) =>
        prev = last

\* C9: at every point of a call of optimize the radius delta is at most
\* max_delta.
C9_DeltaWithinMax ==
    pc \in {"solve", "apply", "finish"} => FLe(opt.delta, opt.max_delta)

\* C10: the solver's counter never decreases and its maximum never changes;
\* once the counter has reached the maximum, iterate returns failure and
\* leaves the solver as it was, whatever the gradient, the Hessian, the
\* tolerance and the radius, and so does the solver call of a pass.
C10_CapIsFinal ==
    [][(pc # "none" /\ pc' # "none") =>
           LET s == opt.steihaug_trust_region
               t == opt'.steihaug_trust_region
               n == s.vector_size
               ones == [i \in 1..n |-> One]
           IN  /\ t.curr_iterations >= s.curr_iterations
               /\ t.max_iterations = s.max_iterations
               /\ s.curr_iterations >= s.max_iterations =>
                      /\ \A d \in DeltaInputs :
                           \A g \in {Zeros(n), ones, [i \in 1..n |-> NAN]} :
                              iterate(s, g, Matrix(n, n, [i \in 1..n |-> ones]),
                                      d, d)
                                  = [success |-> FALSE, st |-> s]
                      /\ (pc = "solve" /\ frame.it < opt.max_iterations) =>
                             /\ obs'.failed
                             /\ t = s
                             /\ ret' = ErrSteihaug]_vars

\* The first solver call of a call of optimize has failed on the counter.
C10_Witness ==
    /\ pc = "idle"
    /\ obs.failed
    /\ obs.solver_calls = 1
    /\ opt.max_iterations > 0
    /\ opt.steihaug_trust_region.curr_iterations
           >= opt.steihaug_trust_region.max_iterations

\* C11: when the messages are kept in the struct (no terminal), the
\* log_messages read by get_results after optimize has returned Ok(true) are,
\* in this order, the start message, one progress line for every completed
\* pass with the passes' indices 0, 1, ... in order, and the summary.
C11_LogHoldsEveryMessage ==
    [][(pc \in {"solve", "finish"} /\ pc' = "idle" /\ ret' = OkTrue
            /\ ~opt.use_terminal) =>
           LET log == get_results(opt').log_messages
               k == obs'.iterations
           IN  /\ Len(log) = k + 2
               /\ log[1] = start_message
               /\ \A i \in 1..k : /\ log[i + 1].kind = "process"
                                  /\ log[i + 1].it = i - 1
               /\ log[k + 2].kind = "conclude"
               /\ log[k + 2].success]_vars

\* C12: at construction the value passed to exp for a polymer lies within
\* the bound of 230, whatever the raw energy, the temperature and the
\* scaling, so that the stored energy is never zero and never infinite.
C12_ClampBoundsExpArgument ==
    given.fn = "polymers_q" =>
        /\ DLe(DLit(-230, 0), found.arg)
        /\ DLe(found.arg, DLit(230, 0))
        /\ found.q.k = "fin"
        /\ found.q.m # 0

\* The determinant of the leading k by k block of a matrix of whole numbers
\* (rows of fractions n/1), by expansion along its last row, and positive
\* definiteness by the signs of the leading determinants.
RECURSIVE Det(_, _, _)
Det(m, rows, cols) ==
    IF rows = <<>> THEN 1
    ELSE LET r == rows[Len(rows)]
             rest == SubSeq(rows, 1, Len(rows) - 1)
             without(j) == [t \in 1..(Len(cols) - 1) |->
                               IF t < j THEN cols[t] ELSE cols[t + 1]]
             sign(j) == IF (Len(rows) + j) % 2 = 0 THEN 1 ELSE -1
             RECURSIVE Expand(_)
             Expand(j) ==
                 IF j > Len(cols) THEN 0
                 ELSE sign(j) * m.a[r][cols[j]].n * Det(m, rest, without(j))
                      + Expand(j + 1)
         IN  Expand(1)

PositiveDefinite(m) ==
    /\ \A i, j \in 1..m.nrows : m.a[i][j] = m.a[j][i]
    /\ \A k \in 1..m.nrows : Det(m, [i \in 1..k |-> i], [i \in 1..k |-> i]) > 0

C14_DensityAtFourDegrees ==
    (given.fn = "density_water" /\ given.t = DLit(4, 0)) =>
        /\ DLe(DLit(99, -2), found.density)
        /\ DLe(found.density, DLit(101, -2))

\* The positions of the arguments given as positionals: those that do not
\* begin with a hyphen and do not follow an option that takes a value.
Operands(argv) ==
    { i \in 1..Len(argv) :
        /\ argv[i][1] # "-"
        /\ ~(i > 1 /\ \E k \in 3..4 : argv[i - 1] \in {command[k].short, command[k].long}) }

\* The value given with option k: the argument after its spelling.
OptionValues(argv, k) ==
    { argv[i + 1] : i \in { j \in 1..(Len(argv) - 1) :
                               argv[j] \in {command[k].short, command[k].long} } }

\* C16: parsing succeeds only with both positionals, cfe then con, and
\* fails with none or one; with the two positionals alone log and output
\* are absent and verbose is false; log, output and verbose are set
\* exactly when their own option is given, log and output to its value.
C16_ParseSetsOwnOptions ==
    given.fn = "try_get_matches_from" =>
        LET argv == given.argv
            m == found.matches
            spelled(k) == \E i \in 1..Len(argv) :
                              argv[i] \in {command[k].short, command[k].long}
        IN  /\ m.ok =>
                  /\ Cardinality(Operands(argv)) >= 2
                  /\ \E i, j \in Operands(argv) :
                         i < j /\ m.cfe = argv[i] /\ m.con = argv[j]
            /\ Cardinality(Operands(argv)) <= 1 => ~m.ok
            /\ (m.ok /\ Len(argv) = 2) =>
                  m.log = NoPath /\ m.output = NoPath /\ ~m.verbose
            /\ m.ok =>
                  /\ IF spelled(3) THEN m.log \in OptionValues(argv, 3) ELSE m.log = NoPath
                  /\ IF spelled(4) THEN m.output \in OptionValues(argv, 4)
                                   ELSE m.output = NoPath
                  /\ m.verbose <=> spelled(5)

C16_Witness ==
    /\ given.fn = "try_get_matches_from"
    /\ found.matches.ok
    /\ Len(given.argv) = 4
    /\ found.matches.log # NoPath
    /\ found.matches.output = NoPath
    /\ ~found.matches.verbose
    /\ C16_ParseSetsOwnOptions

\* C17: in every pass that does not stop on a zero actual reduction, the
\* radius after the pass is the radius before it multiplied by
\* scale_factors[0] if rho < rho_thresholds[0]; the smaller of max_delta and
\* scale_factors[1] * delta if rho > rho_thresholds[1] and the norm of the
\* step is at least norm_ratio_threshold * delta; and the radius before it
\* otherwise, whether or not the step is then rejected.
C17_RadiusRule ==
    [][(pc = "apply" /\ pc' = "solve") =>
           LET update_step == get_result(opt.steihaug_trust_region)
               moved == [opt EXCEPT !.optimal_lambda = VAdd(@, update_step)]
               rho == reduction_ratio(
                          FSub(frame.function, lagrangian(moved, polymer_lambdas(moved))),
                          pred_reduction(frame.gradient, frame.hessian, update_step))
           IN  opt'.delta =
                   IF FLt(rho, opt.rho_thresholds[1])
                   THEN FMul(opt.delta, opt.scale_factors[1])
                   ELSE IF /\ FGt(rho, opt.rho_thresholds[2])
                           /\ FGe(norm(update_step),
                                  FMul(opt.norm_ratio_threshold, opt.delta))
                   THEN FMin(opt.max_delta, FMul(opt.scale_factors[2], opt.delta))
                   ELSE opt.delta]_vars

\* A pass has ended with its step rejected and the radius reduced.
C17_Witness ==
    /\ pc = "solve"
    /\ obs.iterations >= 1
    /\ obs.rejected
    /\ FLt(opt.delta, arg)

\* C18: in every pass that does not stop on a zero actual reduction, lambda
\* after the pass is lambda before it plus the solver's step exactly when
\* rho > eta, where rho is the actual reduction over the predicted one, and
\* 0 when the predicted reduction is exactly zero.
C18_KeptExactlyAboveEta ==
    [][(pc = "apply" /\ pc' = "solve") =>
           LET update_step == get_result(opt.steihaug_trust_region)
               moved == [opt EXCEPT !.optimal_lambda = VAdd(@, update_step)]
               actual_reduction ==
                   FSub(frame.function, lagrangian(moved, polymer_lambdas(moved)))
               predicted ==
                   pred_reduction(frame.gradient, frame.hessian, update_step)
               rho == IF FEq(predicted, 0) THEN 0
                      ELSE FDiv(actual_reduction, predicted)
           IN  (opt'.optimal_lambda = moved.optimal_lambda) <=> FGt(rho, opt.eta)]_vars

\* C19: in every pass the tolerance passed to the solver is
\* min(norm(gradient), 0.5) * norm(gradient), for the gradient computed at
\* the start of the pass.
C19_ToleranceIsMinOfNorm ==
    [][(pc = "solve" /\ pc' = "apply") =>
           frame'.epsilon =
               FMul(FMin(norm(frame'.gradient), Lit(1, 2)), norm(frame'.gradient))]_vars

\* C19, amended: the tolerance passed to the solver is
\* min(sqrt(norm(gradient)), 0.5) * norm(gradient).
C19_ToleranceIsMinOfRoot ==
    [][(pc = "solve" /\ pc' = "apply") =>
           frame'.epsilon =
               FMul(FMin(FSqrt(norm(frame'.gradient)), Lit(1, 2)),
                    norm(frame'.gradient))]_vars

\* A pass whose gradient has a norm below one half and whose tolerance is
\* not zero, where the square root and the norm give different tolerances.
C19_Witness ==
    /\ pc = "apply"
    /\ FLt(norm(frame.gradient), Lit(1, 2))
    /\ FGt(frame.epsilon, 0)
    /\ frame.epsilon = FMul(FMin(FSqrt(norm(frame.gradient)), Lit(1, 2)),
                            norm(frame.gradient))
    /\ frame.epsilon # FMul(FMin(norm(frame.gradient), Lit(1, 2)),
                            norm(frame.gradient))

\* C20: when the candidate z + alpha * d of an inner pass of iterate has a
\* norm of at least delta, the call ends there: tau is the non-negative root
\* of ||z + tau * d|| = delta for z and d as they are before the step, z
\* becomes z + tau * d, the step returned has norm exactly delta, and the
\* call succeeds whenever that root is finite.  Stated for the first inner
\* pass of the solver call of a pass of optimize, where z = 0 and
\* d = -gradient.
C20_BoundaryExitOnRadius ==
    [][(pc = "solve" /\ pc' = "apply") =>
           LET s0 == [opt.steihaug_trust_region EXCEPT
                          !.curr_zstep = Zeros(Len(frame'.gradient)),
                          !.curr_rstep = frame'.gradient,
                          !.curr_dstep = VNeg(frame'.gradient)]
               alpha == FDiv(dot(s0.curr_rstep, s0.curr_rstep),
                             dot(s0.curr_dstep,
                                 MatVec(frame'.hessian, s0.curr_dstep)))
               candidate == VAdd(s0.curr_zstep, VScale(alpha, s0.curr_dstep))
               tau == solve_curvature_quadratic(s0, opt.delta)
               returned == get_result(opt'.steihaug_trust_region)
           IN  (/\ ~FLt(norm(frame'.gradient), frame'.epsilon)
                /\ FGe(norm(candidate), opt.delta)) =>
                   /\ tau.some
                   /\ FGe(tau.t, 0)
                   /\ returned = VAdd(s0.curr_zstep, VScale(tau.t, s0.curr_dstep))
                   /\ FEq(norm(returned), opt.delta)]_vars

\* C21: whenever the curvature of the search direction is negative at an
\* inner pass of iterate, the call leaves through the boundary exit at that
\* pass and takes no step along the direction.
C21_NegativeCurvatureLeavesAtBoundary ==
    given.fn = "iterate_exact" =>
        \A i \in 1..Len(found.curvatures) :
            RLt(found.curvatures[i], RZero) =>
                found.boundary /\ i = Len(found.curvatures)

\* C22: every solver call that returns success adds one to the counter
\* that the top of iterate compares with the maximum, whatever the path on
\* which the call returns.
C22_CounterCountsCalls ==
    [][(pc = "solve" /\ pc' = "apply") =>
           opt'.steihaug_trust_region.curr_iterations
               = opt.steihaug_trust_region.curr_iterations + 1]_vars

\* C23: in the first call of optimize on a freshly constructed Optimizer no
\* solver call fails on the counter: the solver's maximum is the
\* Optimizer's max_iterations, and at the pass with index k the counter is
\* at most k, which is below max_iterations.
C23_FirstCallBelowCap ==
    calls = 1 =>
        LET s == opt.steihaug_trust_region
        IN  /\ s.max_iterations = opt.max_iterations
            /\ pc = "solve" => s.curr_iterations <= frame.it
            /\ pc \in {"apply", "finish"} => s.curr_iterations <= frame.it + 1
            /\ (pc = "solve" /\ frame.it < opt.max_iterations) => ~CapReached(s)
            /\ obs.failed => ~CapReached(s)

\* The first call of optimize is at its second pass or later, its solver
\* calls so far have all added to the counter, and a pass is still to come.
C23_Witness ==
    /\ calls = 1
    /\ pc = "solve"
    /\ frame.it >= 1
    /\ frame.it < opt.max_iterations
    /\ opt.steihaug_trust_region.curr_iterations = frame.it

\* C24: every solver call that returns success leaves a step whose
\* components are all finite numbers, also for a zero gradient with a zero
\* tolerance and for a direction of zero curvature, and the lambda that the
\* pass builds from the step is finite as well.
C24_StepIsFinite ==
    [][/\ (pc = "solve" /\ pc' = "apply") =>
              \A i \in 1..Len(get_result(opt'.steihaug_trust_region)) :
                  is_finite(get_result(opt'.steihaug_trust_region)[i])
       /\ (pc = "apply" /\ pc' \in {"solve", "finish"}) =>
              \A i \in 1..Len(opt'.optimal_lambda) :
                  is_finite(opt'.optimal_lambda[i])]_vars

\* C25: for a text column parse_float returns an error or exactly one
\* number for every entry, each the decimal value its entry denotes, also
\* for negative entries with a fractional part and entries in exponent form.
C25_ParseFloatDenotes ==
    (given.fn = "parse_float" /\ found.result.ok) =>
        /\ Len(found.result.float_values) = Len(given.series)
        /\ \A i \in 1..Len(given.series) :
               /\ parse_f64(trim(given.series[i])).ok
               /\ found.result.float_values[i] = parse_f64(trim(given.series[i])).v

=============================================================================
